---- MODULE Spec2Model ----
(***************************************************************************)
(* Option tree of bitrise-init (models/option.go) and the manual-config    *)
(* walk of the cli package.                                                *)
(*                                                                         *)
(* Objects live on a heap: a sequence of OptionModel records, a pointer is *)
(* an index into it and Nil is the nil pointer.  A Go slice is a window on *)
(* a backing array, so Components is kept as (backing array, length) and   *)
(* the backing arrays are part of the state.                               *)
(***************************************************************************)
EXTENDS Integers, Sequences, FiniteSets, TLC

\* ------------------------------------------------------------------ bounds
MaxNodes == 4
MaxDeepNodes == 6
MaxCopyNodes == 4
MaxCopyDepth == 1
MaxTyped == 1
MaxRoots == 2
MaxDetached == 0
MaxOps == 1

Keys == {"a", "b"}
Titles == {"T"}
EnvKeys == {"E"}
ConfigNames == {"c"}

Nil == 0
NoFault == "none"
NilMapFault == "assignment to entry in nil map"
NilDerefFault == "nil pointer dereference"

VARIABLES heap, arr, fault, nodeLimit, ops, walk

vars == <<heap, arr, fault, nodeLimit, ops, walk>>

\* The option objects and backing arrays as one value, so that every
\* operation is a function from store to store.
Cur == [heap |-> heap, arr |-> arr, fault |-> fault]

Live(s) == 1..Len(s.heap)

Range(seq) == {seq[i] : i \in DOMAIN seq}

\* ------------------------------------------------------------ OptionModel
NilSlice == [base |-> Nil, len |-> 0]

OptionModel(title, envKey, config) ==
    [Title |-> title, EnvKey |-> envKey, Type |-> "", Config |-> config,
     MapIsNil |-> FALSE, ChildOptionMap |-> <<>>,
     Components |-> NilSlice, Head |-> Nil]

\* Allocation of one object: it gets the next index, and no backing array.
Alloc(s, node) ==
    [s EXCEPT !.heap = Append(s.heap, node), !.arr = Append(s.arr, <<>>)]

NewOptionOp(s, title, envKey) == Alloc(s, OptionModel(title, envKey, ""))

NewConfigOptionOp(s, name) == Alloc(s, OptionModel("", "", name))

IsConfigOption(s, n) == s.heap[n].Config # ""

IsValueOption(s, n) == s.heap[n].Title # ""

IsEmpty(s, n) == ~IsValueOption(s, n) /\ ~IsConfigOption(s, n)

\* The children map of n as a function (a nil map reads as an empty one).
ChildMap(s, n) == s.heap[n].ChildOptionMap

\* ------------------------------------------------------------- Go slices
SliceCap(s, sl) == IF sl.base = Nil THEN 0 ELSE Len(s.arr[sl.base])

\* The elements a slice shows.
SliceElems(s, sl) ==
    IF sl.base = Nil THEN <<>> ELSE SubSeq(s.arr[sl.base], 1, sl.len)

Components(s, n) == SliceElems(s, s.heap[n].Components)

\* Capacity of the array append allocates when the old one is full.
GrowCap(old, need) == IF need > old + old THEN need ELSE old + old

Filler(n) == [i \in 1..n |-> ""]

\* append(sl, v) on behalf of object c: in place when the backing array has
\* room (the array is then shared with every other slice on it), else into
\* a new array, owned by c.  Returns the store and the resulting slice.
GoAppend(s, sl, v, c) ==
    LET need == sl.len + 1
        cap == SliceCap(s, sl)
    IN  IF need <= cap
        THEN [store |-> [s EXCEPT !.arr[sl.base][need] = v],
              slice |-> [base |-> sl.base, len |-> need]]
        ELSE [store |-> [s EXCEPT !.arr[c] = SliceElems(s, sl) \o <<v>>
                                     \o Filler(GrowCap(cap, need) - need)],
              slice |-> [base |-> c, len |-> need]]

\* ------------------------------------------------- AddOption / AddConfig
AddOptionOp(s, option, forValue, newOption) ==
    IF s.heap[option].MapIsNil
    THEN [s EXCEPT !.fault = NilMapFault]
    ELSE LET s1 == [s EXCEPT !.heap[option].ChildOptionMap =
                        (forValue :> newOption) @@ @]
         IN  IF newOption = Nil THEN s1
             ELSE LET ap == GoAppend(s1, s1.heap[option].Components,
                                     forValue, newOption)
                      head == IF s1.heap[option].Head = Nil
                              THEN option ELSE s1.heap[option].Head
                  IN  [ap.store EXCEPT
                         !.heap[newOption].Components = ap.slice,
                         !.heap[newOption].Head = head]

AddConfigOp(s, option, forValue, newConfigOption) ==
    AddOptionOp(s, option, forValue, newConfigOption)

\* ------------------------------------------------------- Child / Parent
RECURSIVE ChildOp(_, _, _)
ChildOp(s, option, components) ==
    IF components = <<>> THEN <<option, TRUE>>
    ELSE LET m == ChildMap(s, option)
             c == IF Head(components) \in DOMAIN m
                  THEN m[Head(components)] ELSE Nil
         IN  IF c = Nil THEN <<Nil, FALSE>>
             ELSE ChildOp(s, c, Tail(components))

NoParent == <<Nil, "", FALSE>>

ParentOp(s, option) ==
    IF s.heap[option].Head = Nil THEN NoParent
    ELSE LET comps == Components(s, option)
             r == ChildOp(s, s.heap[option].Head,
                          SubSeq(comps, 1, Len(comps) - 1))
         IN  IF ~r[2] THEN NoParent
             ELSE <<r[1], comps[Len(comps)], TRUE>>

\* ---------------------------------------------------------- tree shape
Children(s, n) == {ChildMap(s, n)[k] : k \in DOMAIN ChildMap(s, n)} \ {Nil}

RECURSIVE ReachFrom(_, _, _)
ReachFrom(s, frontier, seen) ==
    LET next == UNION {Children(s, n) : n \in frontier} \ (seen \cup frontier)
    IN  IF frontier = {} THEN seen
        ELSE ReachFrom(s, next, seen \cup frontier)

\* The objects of the subtree of n, n included.
Subtree(s, n) == ReachFrom(s, {n}, {})

HasParentLink(s, n) == \E p \in Live(s) : n \in Children(s, p)

\* A root: an object that was never attached and that nothing holds.
IsRoot(s, n) == s.heap[n].Head = Nil /\ ~HasParentLink(s, n)

\* An object that can be handed to an attach operation on `option`: a root
\* that is not the root of option's own tree (the tree stays a tree).
Attachable(s, option, c) ==
    /\ IsRoot(s, c)
    /\ c # option
    /\ option \notin Subtree(s, c)

\* ----------------------------------------------------- map iteration
\* Every string that can key a children map: the values, and the config
\* names (AttachToLastChilds keys a child by GetValues of a config option).
AllKeys == Keys \cup ConfigNames

\* A range over a Go map visits the keys in an unspecified order: any
\* enumeration of the keys the maps of the store hold.
KeysInUse(s) == UNION {DOMAIN s.heap[n].ChildOptionMap : n \in Live(s)}

KeyOrders(s) ==
    {f \in [1..Cardinality(KeysInUse(s)) -> KeysInUse(s)] :
        \A i, j \in DOMAIN f : i # j => f[i] # f[j]}

InMap(m, k) == k \in DOMAIN m

\* The keys of map m in the order `ord` visits them.
IterKeys(m, ord) == SelectSeq(ord, LAMBDA k : InMap(m, k))

\* ------------------------------------------------------------ LastChilds
\* A child that makes its parent a last child.
EndsWalk(s, childOption) ==
    \/ childOption = Nil
    \/ IsConfigOption(s, childOption)
    \/ IsEmpty(s, childOption)

RECURSIVE LastWalk(_, _, _)
RECURSIVE LastScan(_, _, _, _)
\* walk(opt): the options it appends to lastOptions.
LastWalk(s, opt, ord) ==
    LET ks == IterKeys(ChildMap(s, opt), ord)
    IN  IF ks = <<>> THEN <<opt>> ELSE LastScan(s, opt, ks, ord)

\* The range loop of walk over the keys ks still to visit.
LastScan(s, opt, ks, ord) ==
    IF ks = <<>> THEN <<>>
    ELSE LET childOption == ChildMap(s, opt)[Head(ks)]
         IN  IF EndsWalk(s, childOption) THEN <<opt>>
             ELSE LastWalk(s, childOption, ord)
                      \o LastScan(s, opt, Tail(ks), ord)

LastChilds(s, option, ord) == LastWalk(s, option, ord)

\* ------------------------------------------------------------- GetValues
GetValues(s, option, ord) ==
    IF s.heap[option].Config # "" THEN <<s.heap[option].Config>>
    ELSE IterKeys(ChildMap(s, option), ord)

\* --------------------------------------------------------- RemoveConfigs
\* The child pointers the two nested loops visit, in order.
RECURSIVE ChildPointers(_, _, _)
ChildPointers(s, lastChilds, ord) ==
    IF lastChilds = <<>> THEN <<>>
    ELSE LET m == ChildMap(s, Head(lastChilds))
             ks == IterKeys(m, ord)
         IN  [i \in 1..Len(ks) |-> m[ks[i]]]
                 \o ChildPointers(s, Tail(lastChilds), ord)

\* child.Config = "" for each pointer in turn; a nil pointer faults and
\* leaves the options cleared so far cleared.
RECURSIVE ClearConfigs(_, _)
ClearConfigs(s, ptrs) ==
    IF ptrs = <<>> THEN s
    ELSE IF Head(ptrs) = Nil THEN [s EXCEPT !.fault = NilDerefFault]
    ELSE ClearConfigs([s EXCEPT !.heap[Head(ptrs)].Config = ""], Tail(ptrs))

RemoveConfigsOp(s, option, ord) ==
    ClearConfigs(s, ChildPointers(s, LastChilds(s, option, ord), ord))

\* ---------------------------------------------------- AttachToLastChilds
\* The inner loop: child.AddOption(value, opt) for each value.
RECURSIVE AttachValues(_, _, _, _)
AttachValues(s, child, values, opt) ==
    IF values = <<>> \/ s.fault # NoFault THEN s
    ELSE AttachValues(AddOptionOp(s, child, Head(values), opt),
                      child, Tail(values), opt)

\* The outer loop over the last childs found before the first attachment.
RECURSIVE AttachLoop(_, _, _, _)
AttachLoop(s, childs, opt, ord) ==
    IF childs = <<>> \/ s.fault # NoFault THEN s
    ELSE AttachLoop(AttachValues(s, Head(childs),
                                 GetValues(s, Head(childs), ord), opt),
                    Tail(childs), opt, ord)

AttachToLastChildsOp(s, option, opt, ord) ==
    AttachLoop(s, LastChilds(s, option, ord), opt, ord)

\* ------------------------------------------------------------------ Copy
\* encoding/json writes the keys of a map sorted.
SortedKeys == <<"a", "b", "c">>

JsonNull ==
    [null |-> TRUE, title |-> "", env_key |-> "", type |-> "", config |-> "",
     has_value_map |-> FALSE, value_map |-> <<>>]

\* json.Marshal of an option: Components and Head are not written, and an
\* omitempty field is left out when it is empty (a string left out reads
\* back as ""; value_map left out is recorded by has_value_map).
RECURSIVE Marshal(_, _)
Marshal(s, option) ==
    LET o == s.heap[option]
        m == o.ChildOptionMap
    IN  [null |-> FALSE, title |-> o.Title, env_key |-> o.EnvKey,
         type |-> o.Type, config |-> o.Config,
         has_value_map |-> DOMAIN m # {},
         value_map |-> [k \in DOMAIN m |->
                          IF m[k] = Nil THEN JsonNull ELSE Marshal(s, m[k])]]

\* json.Unmarshal into a new option: the option is allocated, then each
\* entry of value_map is decoded into a new option of its own.  Returns the
\* store and the new option.
RECURSIVE Unmarshal(_, _)
RECURSIVE UnmarshalEntries(_, _, _, _)
Unmarshal(s, doc) ==
    LET s1 == Alloc(s, [Title |-> doc.title, EnvKey |-> doc.env_key,
                        Type |-> doc.type, Config |-> doc.config,
                        MapIsNil |-> ~doc.has_value_map,
                        ChildOptionMap |-> <<>>,
                        Components |-> NilSlice, Head |-> Nil])
    IN  UnmarshalEntries(s1, Len(s1.heap), doc.value_map,
                         IterKeys(doc.value_map, SortedKeys))

UnmarshalEntries(s, option, valueMap, ks) ==
    IF ks = <<>> THEN [store |-> s, copy |-> option]
    ELSE IF valueMap[Head(ks)].null
    THEN UnmarshalEntries(
             [s EXCEPT !.heap[option].ChildOptionMap = (Head(ks) :> Nil) @@ @],
             option, valueMap, Tail(ks))
    ELSE LET r == Unmarshal(s, valueMap[Head(ks)])
         IN  UnmarshalEntries(
                 [r.store EXCEPT !.heap[option].ChildOptionMap =
                                     (Head(ks) :> r.copy) @@ @],
                 option, valueMap, Tail(ks))

\* A copy that clones the option itself and keeps its children pointers.
CopyShallow(s, option) ==
    LET s1 == Alloc(s, [s.heap[option] EXCEPT
                          !.MapIsNil = (DOMAIN s.heap[option].ChildOptionMap = {}),
                          !.Components = NilSlice, !.Head = Nil])
    IN  [store |-> s1, copy |-> Len(s1.heap)]

CopyOp(s, option) == Unmarshal(s, Marshal(s, option))

\* The number of options a document decodes into.
RECURSIVE DocSize(_)
RECURSIVE DocSizeSum(_, _)
DocSize(doc) == 1 + DocSizeSum(doc.value_map, IterKeys(doc.value_map, SortedKeys))

DocSizeSum(valueMap, ks) ==
    IF ks = <<>> THEN 0
    ELSE (IF valueMap[Head(ks)].null THEN 0 ELSE DocSize(valueMap[Head(ks)]))
             + DocSizeSum(valueMap, Tail(ks))

\* --------------------------------------------------------------- SetType
TypeSelector == "selector"
TypeUserInput == "user_input"
Types == {TypeSelector}

SetTypeOp(s, option, optionType) == [s EXCEPT !.heap[option].Type = optionType]

\* --------------------------------------------------------------- actions
Idle == [pc |-> "idle"]

\* An option that was attached and that nothing holds any more.
Detached(s) ==
    {n \in Live(s) : s.heap[n].Head # Nil /\ ~HasParentLink(s, n)}

Apply(s) ==
    /\ Cardinality(Detached(s)) <= MaxDetached
    /\ heap' = s.heap
    /\ arr' = s.arr
    /\ fault' = s.fault
    /\ UNCHANGED <<nodeLimit, walk>>

Running == fault = NoFault /\ walk.pc = "idle"

\* The tree is built first and operated on afterwards.
Building == Running /\ ops = 0 /\ ops' = ops

Operating == Running /\ ops < MaxOps /\ ops' = ops + 1

Roots(s) == {n \in Live(s) : IsRoot(s, n)}

\* Room for one more object that starts as a root.
CanAllocate ==
    /\ Len(heap) < nodeLimit
    /\ Cardinality(Roots(Cur)) < MaxRoots

NewOption(title, envKey) ==
    /\ Building
    /\ CanAllocate
    /\ Apply(NewOptionOp(Cur, title, envKey))

NewConfigOption(name) ==
    /\ Building
    /\ CanAllocate
    /\ Apply(NewConfigOptionOp(Cur, name))

\* The trees that are built keep the config options as leaves.
AddOption(option, forValue, newOption) ==
    /\ Building
    /\ ~IsConfigOption(Cur, option)
    /\ newOption # Nil => Attachable(Cur, option, newOption)
    /\ newOption # Nil => ~IsConfigOption(Cur, newOption)
    /\ Apply(AddOptionOp(Cur, option, forValue, newOption))

AddConfig(option, forValue, newConfigOption) ==
    /\ Building
    /\ ~IsConfigOption(Cur, option)
    /\ newConfigOption # Nil => Attachable(Cur, option, newConfigOption)
    /\ newConfigOption # Nil => IsConfigOption(Cur, newConfigOption)
    /\ Apply(AddConfigOp(Cur, option, forValue, newConfigOption))

RemoveConfigs(option, ord) ==
    /\ Operating
    /\ Apply(RemoveConfigsOp(Cur, option, ord))

AttachToLastChilds(option, opt, ord) ==
    /\ Operating
    /\ Attachable(Cur, option, opt)
    /\ Subtree(Cur, option) \cap Subtree(Cur, opt) = {}
    /\ Apply(AttachToLastChildsOp(Cur, option, opt, ord))

\* ---------------------------------------------------- the tree operations
Init ==
    /\ heap = <<>>
    /\ arr = <<>>
    /\ fault = NoFault
    /\ nodeLimit = MaxNodes
    /\ ops = 0
    /\ walk = Idle

Next ==
    \/ \E t \in Titles, e \in EnvKeys : NewOption(t, e)
    \/ \E c \in ConfigNames : NewConfigOption(c)
    \/ \E p \in Live(Cur), k \in Keys, c \in Live(Cur) \cup {Nil} :
          AddOption(p, k, c)
    \/ \E p \in Live(Cur), k \in Keys, c \in Live(Cur) \cup {Nil} :
          AddConfig(p, k, c)
    \/ \E n \in Live(Cur), ord \in KeyOrders(Cur) : RemoveConfigs(n, ord)
    \/ \E n \in Live(Cur), c \in Live(Cur), ord \in KeyOrders(Cur) :
          AttachToLastChilds(n, c, ord)

Spec == Init /\ [][Next]_vars

\* --------------------------------------------------------- Copy of trees
\* The trees Copy is applied to: every tree of depth MaxCopyDepth at most
\* over Keys, a child being nil, a value option, a config option or an
\* empty option.  A tree is described by the document it marshals to.
Doc(title, envKey, config, valueMap) ==
    [null |-> FALSE, title |-> title, env_key |-> envKey, type |-> "",
     config |-> config, has_value_map |-> DOMAIN valueMap # {},
     value_map |-> valueMap]

LeafDocs ==
    {Doc(t, e, "", <<>>) : t \in Titles, e \in EnvKeys}
        \cup {Doc("", "", c, <<>>) : c \in ConfigNames}
        \cup {Doc("", "", "", <<>>)}

RECURSIVE TreeDocs(_)
TreeDocs(depth) ==
    IF depth = 0 THEN LeafDocs
    ELSE LET below == TreeDocs(depth - 1) \cup {JsonNull}
             maps == UNION {[S -> below] : S \in SUBSET Keys \ {{}}}
         IN  LeafDocs \cup
             {Doc(t, e, "", m) : t \in Titles, e \in EnvKeys, m \in maps}

\* The tree of a description, built top-down with the constructors and
\* AddOption / AddConfig.
RECURSIVE Build(_, _)
RECURSIVE BuildEntries(_, _, _, _)
Build(s, doc) ==
    LET s1 == IF doc.config # "" THEN NewConfigOptionOp(s, doc.config)
              ELSE NewOptionOp(s, doc.title, doc.env_key)
        s2 == IF doc.type # "" THEN SetTypeOp(s1, Len(s1.heap), doc.type)
              ELSE s1
    IN  [store |-> s2, copy |-> Len(s2.heap)]

BuildEntries(s, option, valueMap, ks) ==
    IF ks = <<>> THEN s
    ELSE IF valueMap[Head(ks)].null
    THEN BuildEntries(AddOptionOp(s, option, Head(ks), Nil),
                      option, valueMap, Tail(ks))
    ELSE LET child == Build(s, valueMap[Head(ks)])
             doc == valueMap[Head(ks)]
             s1 == IF doc.config # ""
                   THEN AddConfigOp(child.store, option, Head(ks), child.copy)
                   ELSE AddOptionOp(child.store, option, Head(ks), child.copy)
             s2 == BuildEntries(s1, child.copy, doc.value_map,
                                IterKeys(doc.value_map, SortedKeys))
         IN  BuildEntries(s2, option, valueMap, Tail(ks))

BuildTree(doc) ==
    LET root == Build([heap |-> <<>>, arr |-> <<>>, fault |-> NoFault], doc)
    IN  BuildEntries(root.store, root.copy, doc.value_map,
                     IterKeys(doc.value_map, SortedKeys))

Typed(s) == {n \in Live(s) : s.heap[n].Type # ""}

SetType(option, optionType) ==
    /\ Running
    /\ Cardinality(Typed(Cur) \cup {option}) <= MaxTyped
    /\ Apply(SetTypeOp(Cur, option, optionType))
    /\ ops' = ops

Copy(option) ==
    /\ Running
    /\ Len(heap) + DocSize(Marshal(Cur, option)) <= nodeLimit
    /\ Cardinality(Roots(Cur)) < MaxRoots
    /\ Apply(CopyOp(Cur, option).store)
    /\ ops' = ops

InitCopy ==
    /\ \E doc \in TreeDocs(MaxCopyDepth) :
          LET s == BuildTree(doc)
          IN  heap = s.heap /\ arr = s.arr /\ fault = s.fault
    /\ nodeLimit = MaxCopyNodes
    /\ ops = 0
    /\ walk = Idle

NextCopy ==
    \/ \E n \in Live(Cur), ty \in Types : SetType(n, ty)
    \/ \E n \in Live(Cur) : Copy(n)

SpecCopy == InitCopy /\ [][NextCopy]_vars

\* ------------------------------------------------ construction, any depth
InitDeep ==
    /\ heap = <<>>
    /\ arr = <<>>
    /\ fault = NoFault
    /\ nodeLimit = MaxDeepNodes
    /\ ops = 0
    /\ walk = Idle

NextDeep ==
    \/ \E t \in Titles, e \in EnvKeys : NewOption(t, e)
    \/ \E p \in Live(Cur), k \in Keys, c \in Live(Cur) : AddOption(p, k, c)

SpecDeep == InitDeep /\ [][NextDeep]_vars

\* ------------------------------------------------------------- properties
\* The objects of the trees: everything a root holds, directly or not.
TreeNodes(s) == UNION {Subtree(s, r) : r \in Roots(s)}

\* C1: every object attached as a non-nil child of a tree node p under key k
\* has Parent() = (p, k, true).
C1_ParentOfAttached ==
    \A p \in TreeNodes(Cur) : \A k \in DOMAIN ChildMap(Cur, p) :
        LET n == ChildMap(Cur, p)[k]
        IN  n # Nil => ParentOp(Cur, n) = <<p, k, TRUE>>

\* C2: the root of a tree has Head = nil and every other object of the tree
\* has Head = that root.
C2_HeadIsRoot ==
    \A r \in Roots(Cur) :
        /\ heap[r].Head = Nil
        /\ \A n \in Subtree(Cur, r) \ {r} : heap[n].Head = r

\* C7: a copy of a copy marshals to what the copy marshals to; a copy is made
\* of new options only, and changing the copy (SetType, AddOption of nil or of
\* another copy, RemoveConfigs) changes no option that existed before.
SameBefore(s) ==
    \A i \in Live(Cur) : s.heap[i] = heap[i] /\ s.arr[i] = arr[i]

\* The changes made to the copy c1 (c2 is a second copy, to attach).
ChangesOfCopy(c1, c2) ==
    {SetTypeOp(c1.store, x, ty) :
        x \in Subtree(c1.store, c1.copy), ty \in Types}
    \cup {AddOptionOp(c1.store, x, k, Nil) :
        x \in Subtree(c1.store, c1.copy), k \in Keys}
    \cup {AddOptionOp(c2.store, c1.copy, k, c2.copy) : k \in Keys}
    \cup {RemoveConfigsOp(c1.store, c1.copy, ord) : ord \in KeyOrders(c1.store)}

CopyIsIndependent(c1, c2) ==
    /\ Marshal(c2.store, c2.copy) = Marshal(c1.store, c1.copy)
    /\ Subtree(c1.store, c1.copy) \cap Live(Cur) = {}
    /\ SameBefore(c1.store)
    /\ \A s \in ChangesOfCopy(c1, c2) : SameBefore(s)

C7_CopyIdempotentIndependent ==
    \A n \in Live(Cur) :
        LET c1 == CopyOp(Cur, n)
        IN  CopyIsIndependent(c1, CopyOp(c1.store, c1.copy))

\* A copy of an option that has a child option exists next to the original.
C7_Witness ==
    \E n, c \in Live(Cur) :
        /\ n # c
        /\ IsRoot(Cur, c)
        /\ Children(Cur, n) # {}
        /\ Children(Cur, c) # {}
        /\ Subtree(Cur, n) \cap Subtree(Cur, c) = {}
        /\ Marshal(Cur, c) = Marshal(Cur, n)
        /\ \E d \in Children(Cur, c) : heap[d].MapIsNil

\* --------------------------------------------- properties of operations

\* The terminal predicate: no children, or a child that is nil, a config
\* option or an empty option.
IsTerminal(s, n) ==
    \/ DOMAIN ChildMap(s, n) = {}
    \/ \E k \in DOMAIN ChildMap(s, n) : EndsWalk(s, ChildMap(s, n)[k])

\* The terminal options the walk from n comes to: n when it is terminal,
\* else those of its children.
RECURSIVE TerminalSet(_, _)
TerminalSet(s, n) ==
    IF IsTerminal(s, n) THEN {n}
    ELSE UNION {TerminalSet(s, c) : c \in Children(s, n)}

\* C8: LastChilds(node) is the set of the terminal options reached from
\* node, whatever the order the maps are iterated in.
C8_LastChildsIsTerminalSet ==
    \A n \in Live(Cur) : \A ord \in KeyOrders(Cur) :
        Range(LastChilds(Cur, n, ord)) = TerminalSet(Cur, n)

\* The immediate children of the last childs of n all have an empty Config.
ConfigsRemoved(s, n, ord) ==
    \A lc \in Range(LastChilds(s, n, ord)) :
        \A c \in Children(s, lc) : s.heap[c].Config = ""

\* C6: when RemoveConfigs(node) has run, every immediate child of every last
\* child has an empty Config and a second run changes nothing, whatever the
\* iteration orders (runs that fault on a nil child are C10's).
C6_RemoveConfigsClearsOnce ==
    \A n \in Live(Cur) : \A ord1 \in KeyOrders(Cur) :
        LET s1 == RemoveConfigsOp(Cur, n, ord1)
        IN  s1.fault = NoFault =>
                \A ord2 \in KeyOrders(Cur) :
                    RemoveConfigsOp(s1, n, ord2).fault = NoFault =>
                        /\ ConfigsRemoved(s1, n, ord2)
                        /\ RemoveConfigsOp(s1, n, ord2) = s1

\* The clearing that passes over the nil pointers.
RECURSIVE ClearConfigsSkipNil(_, _)
ClearConfigsSkipNil(s, ptrs) ==
    IF ptrs = <<>> THEN s
    ELSE IF Head(ptrs) = Nil THEN ClearConfigsSkipNil(s, Tail(ptrs))
    ELSE ClearConfigsSkipNil([s EXCEPT !.heap[Head(ptrs)].Config = ""],
                             Tail(ptrs))

\* C10: RemoveConfigs(node) runs to its end on every tree: it skips the nil
\* children and clears the Config of the others.
C10_RemoveConfigsSkipsNil ==
    \A n \in Live(Cur) : \A ord \in KeyOrders(Cur) :
        RemoveConfigsOp(Cur, n, ord)
            = ClearConfigsSkipNil(Cur,
                  ChildPointers(Cur, LastChilds(Cur, n, ord), ord))

\* The places AttachToLastChilds attaches at: (last child, value) pairs.
AttachSites(s, option, ord) ==
    {<<lc, v>> : lc \in Range(LastChilds(s, option, ord)), v \in AllKeys}
        \cap {<<lc, v>> \in Live(s) \X AllKeys :
                 v \in Range(GetValues(s, lc, ord))}

TwoByTwo(s, option, ord) ==
    /\ Cardinality(Range(LastChilds(s, option, ord))) = 2
    /\ option \notin Range(LastChilds(s, option, ord))
    /\ \A x, y \in Range(LastChilds(s, option, ord)) :
          x # y => y \notin Subtree(s, x)
    /\ \A lc \in Range(LastChilds(s, option, ord)) :
          Len(GetValues(s, lc, ord)) = 2

\* C3: on a root with two last childs of two values each, AttachToLastChilds
\* attaches four options that are four different objects, none of them sub,
\* each with the Components and Head of the place it is attached at.
C3_AttachesIndependentCopies ==
    \A r \in Live(Cur), sub \in Live(Cur), ord \in KeyOrders(Cur) :
        (/\ IsRoot(Cur, r)
         /\ Attachable(Cur, r, sub)
         /\ Subtree(Cur, r) \cap Subtree(Cur, sub) = {}
         /\ TwoByTwo(Cur, r, ord))
        => LET s2 == AttachToLastChildsOp(Cur, r, sub, ord)
               sites == AttachSites(Cur, r, ord)
               at(site) == ChildMap(s2, site[1])[site[2]]
           IN  /\ \A x \in sites : at(x) # Nil /\ at(x) # sub
               /\ \A x, y \in sites : x # y => at(x) # at(y)
               /\ \A x \in sites :
                     /\ Components(s2, at(x))
                            = Components(s2, x[1]) \o <<x[2]>>
                     /\ s2.heap[at(x)].Head = r

\* ------------------------------------------------------------------ walk
\* initManualConfig: for one detector, the walk of its option tree and the
\* synthesis of the document the walk resolves to.
MaxWalkDepth == 2

WalkTypes == {TypeSelector, TypeUserInput}

\* What a user may type in an input field besides a candidate.
FreeTexts == {"x"}

\* The option trees of a detector: value options over Keys, with or
\* without an environment key, ending in config options.
WalkLeafDocs == {Doc("", "", c, <<>>) : c \in ConfigNames}

RECURSIVE WalkDocs(_)
WalkDocs(depth) ==
    IF depth = 0 THEN WalkLeafDocs
    ELSE LET below == WalkDocs(depth - 1)
             maps == UNION {[S -> below] : S \in SUBSET Keys \ {{}}}
         IN  WalkLeafDocs \cup
             {[Doc(t, e, "", m) EXCEPT !.type = ty] :
                 t \in Titles, e \in EnvKeys \cup {""},
                 ty \in WalkTypes, m \in maps}

\* askForValue: the option's environment key with the value selected among
\* GetValues (an input field takes any text), or an error.
AskForValue(s, option) ==
    LET values == Range(GetValues(s, option, SortedKeys))
        answers == IF s.heap[option].Type = TypeUserInput
                   THEN values \cup FreeTexts ELSE values
    IN  {[optionEnvKey |-> s.heap[option].EnvKey, selectedValue |-> v,
          err |-> FALSE] : v \in answers}
            \cup {[optionEnvKey |-> "", selectedValue |-> "", err |-> TRUE]}

\* The state of a walk that has not asked anything yet.
WalkStart(root, configMap) ==
    [pc |-> "walkDepth", option |-> root, asked |-> Nil, selectedValue |-> "",
     optionEnvKey |-> "", calls |-> 0,
     configPth |-> "", appEnvs |-> <<>>, err |-> "",
     configMap |-> configMap, parsed |-> FALSE, environments |-> <<>>,
     printed |-> FALSE]

\* One call of walkDepth, up to its return or its recursive call.
WalkDepthOp(s, w, answer) ==
    IF answer.err
    THEN [w EXCEPT !.pc = "failed", !.calls = @ + 1, !.asked = w.option,
                   !.err = "Failed to ask for vale"]
    ELSE LET w1 == [w EXCEPT !.calls = @ + 1, !.asked = w.option,
                             !.selectedValue = answer.selectedValue,
                             !.optionEnvKey = answer.optionEnvKey]
             w2 == IF answer.optionEnvKey = ""
                   THEN [w1 EXCEPT !.configPth = answer.selectedValue]
                   ELSE [w1 EXCEPT !.appEnvs =
                            Append(@, <<answer.optionEnvKey,
                                        answer.selectedValue>>)]
             found == InMap(ChildMap(s, w.option), answer.selectedValue)
         IN  IF ~found THEN [w2 EXCEPT !.pc = "walked"]
             ELSE [w2 EXCEPT
                      !.option = ChildMap(s, w.option)[answer.selectedValue]]

\* The synthesis after a walk that returned no error: the document text
\* of configPth (the empty text if the map has no such key) is parsed,
\* gets the environments and is printed.
SynthesizeOp(w, printOk) ==
    LET w1 == [w EXCEPT !.parsed = TRUE, !.environments = w.appEnvs]
    IN  IF printOk THEN [w1 EXCEPT !.pc = "done", !.printed = TRUE]
        ELSE [w1 EXCEPT !.pc = "failed", !.err = "Failed to print result"]

WalkDepth ==
    /\ walk.pc = "walkDepth"
    /\ \E answer \in AskForValue(Cur, walk.option) :
           walk' = WalkDepthOp(Cur, walk, answer)
    /\ UNCHANGED <<heap, arr, fault, nodeLimit, ops>>

Synthesize ==
    /\ walk.pc = "walked"
    /\ \E printOk \in BOOLEAN : walk' = SynthesizeOp(walk, printOk)
    /\ UNCHANGED <<heap, arr, fault, nodeLimit, ops>>

InitWalk ==
    \E doc \in WalkDocs(MaxWalkDepth) : \E configMap \in SUBSET ConfigNames :
        LET s == BuildTree(doc)
        IN  /\ heap = s.heap
            /\ arr = s.arr
            /\ fault = s.fault
            /\ nodeLimit = Len(s.heap)
            /\ ops = 0
            /\ walk = WalkStart(1, configMap)

NextWalk == WalkDepth \/ Synthesize

SpecWalk == InitWalk /\ [][NextWalk]_vars

\* C4: when the value selected at a value option has no child under it,
\* the walk fails with a broken-route error and nothing is parsed, given
\* the environments or printed; it never goes on as a success.
BrokenRoute(w) ==
    /\ w.asked # Nil
    /\ w.err # "Failed to ask for vale"
    /\ heap[w.asked].Config = ""
    /\ ~InMap(ChildMap(Cur, w.asked), w.selectedValue)

C4_BrokenRouteFails ==
    BrokenRoute(walk) =>
        /\ walk.pc = "failed"
        /\ walk.err = "BrokenRoute"
        /\ ~walk.parsed
        /\ ~walk.printed

\* C5: when the resolved config name is no key of the detector's document
\* map, synthesis fails with a missing-document error: nothing is parsed,
\* given the environments or printed.
C5_MissingDocumentFails ==
    (walk.pc \in {"done", "failed"} /\ walk.err # "Failed to ask for vale"
        /\ walk.configPth \notin walk.configMap) =>
        /\ walk.pc = "failed"
        /\ walk.err = "MissingDocument"
        /\ ~walk.parsed
        /\ walk.environments = <<>>
        /\ ~walk.printed

\* C9: once a call of walkDepth got an empty environment key, no further
\* option is asked, and neither the config name nor the environments
\* change.
C9_EmptyKeyStopsRouting ==
    [][(walk.asked # Nil /\ walk.err = "" /\ walk.optionEnvKey = "") =>
           /\ walk'.calls = walk.calls
           /\ walk'.configPth = walk.configPth
           /\ walk'.appEnvs = walk.appEnvs]_vars

====
